---- MODULE Spec2Model ----
(***************************************************************************)
(* Caretaker service (src/server.js, three concatenated variants, and      *)
(* src/unnamed/part_000) and partner-code service (src/unnamed/part_001).  *)
(*                                                                         *)
(* A request handler is cut at its awaits: the synchronous validation and  *)
(* the first store call form one step, each later store call (with the     *)
(* synchronous code that follows it) another.  The audit logger's lookup   *)
(* in the read-only users collection and its write to the logs collection  *)
(* form one step, since no request of this service writes users.           *)
(***************************************************************************)
EXTENDS Integers, Sequences, FiniteSets, TLC

\* ------------------------------------------------------------------ bounds
MaxReqs == 2      \* requests accepted in one run
NumSlots == 2     \* requests in flight at once
MaxSeed == 2      \* caretaker records already stored when the run starts
MaxGen == 3       \* partner service: requests handled in one run

\* ---------------------------------------------------------------- values
Undefined == "<undefined>"          \* a key missing from the JSON body
Falsy(v) == v = Undefined \/ v = ""  \* JavaScript !v for a string or undefined

\* The four deployments of the caretaker service.
Variants == {"v1", "v2", "v3", "p0"}
\* POST /api/caretaker/add checks its five fields only in the first variant.
Validates(v) == v = "v1"
\* part_000 has no logChange at all.
Audits(v) == v # "p0"
\* The second variant wraps the user lookup of logChange in its own try/catch.
NestedLookup(v) == v = "v2"
\* DELETE /api/caretaker/delete is missing from part_000.
HasDelete(v) == v # "p0"
\* GET /api/caretakers/all exists in the first and the third variant.
HasAll(v) == v \in {"v1", "v3"}

Slots == 1..NumSlots
IdOf(n) == "c" \o ToString(n)
DocIds == {IdOf(n) : n \in 1..(MaxSeed + MaxReqs)}
NoDoc == [exists |-> FALSE]

\* The users collection, owned by another service and only read here.
Users ==
    [p1 |-> [organizationId |-> "o1", role |-> "user", name |-> "Pat"],
     p2 |-> [organizationId |-> "o2", role |-> "user", name |-> ""],
     a1 |-> [organizationId |-> "o1", role |-> "admin", name |-> "Ann"]]
UserIds == DOMAIN Users

\* ---------------------------------------------------------------- inputs
AddFields == {"patientId", "name", "relation", "email", "phone"}
FullAdd(p) ==
    [patientId |-> p, name |-> "n1", relation |-> "r1", email |-> "e1", phone |-> "h1"]
AddBodies ==
    {FullAdd(p) : p \in {"p1", "p2", "a1", "none"}}
    \cup {[FullAdd("p1") EXCEPT ![f] = v] : f \in AddFields, v \in {"", Undefined}}
ClientIds == {"", IdOf(1), IdOf(2)}
ClientPatients == {"", "p1", "p2"}
UpdatePayloads ==
    {[name |-> "n2", relation |-> "r2", phone |-> "h2", email |-> "e2"],
     [name |-> "n3", relation |-> "r1", phone |-> "h1", email |-> "e1"],
     [name |-> Undefined, relation |-> Undefined, phone |-> Undefined, email |-> Undefined]}
UpdateBodies ==
    {[id |-> i, patientId |-> p, name |-> u.name, relation |-> u.relation,
      phone |-> u.phone, email |-> u.email] :
        i \in ClientIds, p \in ClientPatients, u \in UpdatePayloads}
DeleteBodies == {[id |-> i, patientId |-> p] : i \in ClientIds, p \in ClientPatients}
GetPatients == {"", "p1", "p2", "a1", "none"}
Organizations == {"", "o1", "o2", "o3"}
LogOutcomes == {"ok", "lookup_failed", "write_failed"}

VARIABLES
    variant,       \* which deployment runs
    caretakers,    \* the caretakers collection: document id -> document
    nextId,        \* document ids handed out so far
    now,           \* the store's clock behind serverTimestamp()
    logs,          \* the logs collection, in write order
    reqs,          \* the requests in flight
    started,       \* requests accepted so far
    partnerLinks,  \* part_001: own properties of the partnerLinks object
    generated,     \* part_001: the (code, userId) pairs generate has stored, in order
    presp,         \* part_001: the last request and its response
    handled        \* part_001: requests handled so far

vars == <<variant, caretakers, nextId, now, logs, reqs, started,
          partnerLinks, generated, presp, handled>>
cvars == <<variant, caretakers, nextId, now, logs, reqs, started>>
pvars == <<partnerLinks, generated, presp, handled>>


\* ------------------------------------------------------- request records
IdleSlot ==
    [pc |-> "idle", kind |-> "none", body |-> <<>>, data |-> NoDoc, newId |-> "",
     ids |-> {}, status |-> 0, outId |-> "", outList |-> {}, fault |-> FALSE,
     log |-> "none", pre |-> NoDoc]

\* res.status(s).json(...): the handler is over.
Respond(slot, s) == [slot EXCEPT !.pc = "done", !.status = s]

\* The catch block of a handler, entered because the store failed: 500.  The
\* field fault tells this from a 500 the request itself brought about.
Fail(slot) == [Respond(slot, 500) EXCEPT !.fault = TRUE]

\* The lowest free slot takes the next request.
Free(r) ==
    /\ reqs[r].pc = "idle"
    /\ \A q \in Slots : q < r => reqs[q].pc # "idle"
    /\ started < MaxReqs

Accept(kind, body) == [IdleSlot EXCEPT !.kind = kind, !.body = body]

\* ------------------------------------------------------------ the store
\* The store refuses a document with an undefined field value.
Storable(fields) == \A f \in DOMAIN fields : fields[f] # Undefined

\* snapshot.docs.map(doc => ({ id: doc.id, ...doc.data() }))
WithId(i) ==
    [id |-> i, patientId |-> caretakers[i].patientId, name |-> caretakers[i].name,
     relation |-> caretakers[i].relation, email |-> caretakers[i].email,
     phone |-> caretakers[i].phone, createdAt |-> caretakers[i].createdAt,
     updatedAt |-> caretakers[i].updatedAt]

WherePatientAny(patientId) == {i \in DocIds : caretakers[i] # NoDoc}

\* db.collection('caretakers').where('patientId', '==', patientId)
WherePatientEq(patientId) ==
    {i \in DocIds : caretakers[i] # NoDoc /\ caretakers[i].patientId = patientId}

\* db.collection('caretakers').where('patientId', 'in', idList)
WherePatientIn(idList) ==
    {i \in DocIds : caretakers[i] # NoDoc /\ caretakers[i].patientId \in idList}

\* db.collection('users').where('organizationId', '==', org).where('role', '==', 'user')
PatientsOf(org) ==
    {u \in UserIds : Users[u].organizationId = org /\ Users[u].role = "user"}

\* patientIds.length > 0 ? patientIds : ['none']
InList(patientIds) == IF patientIds # {} THEN patientIds ELSE {"none"}

\* ------------------------------------------------------ the audit logger
\* userDoc.exists ? (userDoc.data().name || 'Unnamed User') : 'Unknown'
UserNameOf(userId) ==
    IF userId \in UserIds
    THEN (IF Falsy(Users[userId].name) THEN "Unnamed User" ELSE Users[userId].name)
    ELSE "Unknown"

LogEntry(action, userId, userName, entityId, entityName, details) ==
    [timestamp |-> now, action |-> action,
     userId |-> IF Falsy(userId) THEN "unknown" ELSE userId,
     userName |-> userName, entity |-> "Caretaker", entityId |-> entityId,
     entityName |-> IF Falsy(entityName) THEN "N/A" ELSE entityName,
     details |-> details]

\* Whether the lookup db.collection('users').doc(userId).get() throws: doc()
\* rejects a path that is not a non-empty string, and the read itself may fail.
LookupThrows(userId, outcome) == Falsy(userId) \/ outcome = "lookup_failed"

\* What logChange did: "written" (an entry was added) or "swallowed" (an error
\* was caught and only printed).
LogResult(userId, outcome) ==
    IF LookupThrows(userId, outcome) /\ ~NestedLookup(variant) THEN "swallowed"
    ELSE IF outcome = "write_failed" THEN "swallowed"
    ELSE "written"

\* The logs collection after logChange(action, userId, 'Caretaker', ...).
LogChange(action, userId, entityId, entityName, details, outcome) ==
    IF LogResult(userId, outcome) = "written"
    THEN Append(logs, LogEntry(action, userId,
                    IF LookupThrows(userId, outcome) THEN "Unknown" ELSE UserNameOf(userId),
                    entityId, entityName, details))
    ELSE logs

RethrowsSwallowed(userId, outcome) == LogResult(userId, outcome) = "swallowed"

\* Whether logChange lets an error of its own reach the handler that awaits
\* it: its catch block only prints.
Rethrows(userId, outcome) == FALSE

\* The handler after await logChange(...): on with its next statement, or in
\* its catch block had logChange thrown.
Awaited(slot, after, userId, outcome) ==
    IF Rethrows(userId, outcome) THEN [Fail(slot) EXCEPT !.log = outcome]
    ELSE [after EXCEPT !.log = outcome]

\* ------------------------------------------------- POST /api/caretaker/add
\* !patientId || !name || !relation || !email || !phone
AddIncomplete(body) == \E f \in AddFields : Falsy(body[f])

NewDocSwapped(body) ==
    [patientId |-> body.patientId, name |-> body.name, relation |-> body.relation,
     email |-> body.phone, phone |-> body.email, createdAt |-> now,
     updatedAt |-> Undefined]

\* The document db.collection('caretakers').add(...) is given.
NewDoc(body) ==
    [patientId |-> body.patientId, name |-> body.name, relation |-> body.relation,
     email |-> body.email, phone |-> body.phone, createdAt |-> now,
     updatedAt |-> Undefined]

\* Validation and the store add.
AddRequest(r, body, ok) ==
    /\ Free(r)
    /\ started' = started + 1
    /\ IF Validates(variant) /\ AddIncomplete(body)
       THEN /\ reqs' = [reqs EXCEPT ![r] = Respond(Accept("add", body), 400)]
            /\ UNCHANGED <<caretakers, nextId, now>>
       ELSE IF ~Storable(body)
       THEN /\ reqs' = [reqs EXCEPT ![r] = Respond(Accept("add", body), 500)]
            /\ UNCHANGED <<caretakers, nextId, now>>
       ELSE IF ~ok
       THEN /\ reqs' = [reqs EXCEPT ![r] = Fail(Accept("add", body))]
            /\ UNCHANGED <<caretakers, nextId, now>>
       ELSE /\ caretakers' = [caretakers EXCEPT ![IdOf(nextId + 1)] = NewDoc(body)]
            /\ nextId' = nextId + 1
            /\ now' = now + 1
            /\ reqs' = [reqs EXCEPT ![r] =
                  IF Audits(variant)
                  THEN [Accept("add", body) EXCEPT !.pc = "add_log",
                                                   !.newId = IdOf(nextId + 1)]
                  ELSE [Respond(Accept("add", body), 200) EXCEPT
                                                   !.outId = IdOf(nextId + 1)]]
    /\ UNCHANGED <<variant, logs>>
    /\ UNCHANGED pvars

\* await logChange('CREATE', patientId, 'Caretaker', caretakerRef.id, name,
\* { data: req.body }), then the response.
AddLog(r, outcome) ==
    /\ reqs[r].pc = "add_log"
    /\ logs' = LogChange("CREATE", reqs[r].body.patientId, reqs[r].newId,
                         reqs[r].body.name, [data |-> reqs[r].body], outcome)
    /\ now' = IF logs' # logs THEN now + 1 ELSE now
    /\ reqs' = [reqs EXCEPT ![r] =
          Awaited(reqs[r], [Respond(reqs[r], 200) EXCEPT !.outId = reqs[r].newId],
                  reqs[r].body.patientId, outcome)]
    /\ UNCHANGED <<variant, caretakers, nextId, started>>
    /\ UNCHANGED pvars

\* -------------------------------------------------- GET /api/caretaker/get
GetRequest(r, patientId, ok) ==
    /\ Free(r)
    /\ started' = started + 1
    /\ reqs' = [reqs EXCEPT ![r] =
          IF Falsy(patientId) THEN Respond(Accept("get", [patientId |-> patientId]), 400)
          ELSE IF ~ok THEN Fail(Accept("get", [patientId |-> patientId]))
          ELSE [Respond(Accept("get", [patientId |-> patientId]), 200) EXCEPT
                   !.outList = {WithId(i) : i \in WherePatientEq(patientId)}]]
    /\ UNCHANGED <<variant, caretakers, nextId, now, logs>>
    /\ UNCHANGED pvars

\* ----------------------------------------------- POST /api/caretaker/update
\* doc.exists
Exists(id) == id \in DocIds /\ caretakers[id] # NoDoc

NotOwnerUnchecked(doc, patientId) == FALSE

\* caretakerData.patientId !== patientId
NotOwner(doc, patientId) == doc.patientId # patientId

LookupNoExistence(kind, next, body, ok) ==
    IF Falsy(body.id) \/ Falsy(body.patientId) THEN Respond(Accept(kind, body), 400)
    ELSE IF ~ok THEN Fail(Accept(kind, body))
    ELSE IF Exists(body.id) /\ NotOwner(caretakers[body.id], body.patientId)
         THEN Respond(Accept(kind, body), 403)
    ELSE [Accept(kind, body) EXCEPT
             !.pc = next,
             !.data = IF Exists(body.id) THEN caretakers[body.id] ELSE NoDoc]

\* Validation, the read of the document, the existence and ownership checks:
\* the first part of the update and of the delete handler alike.
Lookup(kind, next, body, ok) ==
    IF Falsy(body.id) \/ Falsy(body.patientId) THEN Respond(Accept(kind, body), 400)
    ELSE IF ~ok THEN Fail(Accept(kind, body))
    ELSE IF ~Exists(body.id) THEN Respond(Accept(kind, body), 404)
    ELSE IF NotOwner(caretakers[body.id], body.patientId)
         THEN Respond(Accept(kind, body), 403)
    ELSE [Accept(kind, body) EXCEPT !.pc = next, !.data = caretakers[body.id]]

UpdateRequest(r, body, ok) ==
    /\ Free(r)
    /\ started' = started + 1
    /\ reqs' = [reqs EXCEPT ![r] = Lookup("update", "upd_write", body, ok)]
    /\ UNCHANGED <<variant, caretakers, nextId, now, logs>>
    /\ UNCHANGED pvars

UpdatedRestamped(doc, body) ==
    [doc EXCEPT !.name = body.name, !.relation = body.relation,
                !.phone = body.phone, !.email = body.email, !.updatedAt = now,
                !.createdAt = now]

\* caretakerRef.update({ name, relation, phone, email, updatedAt })
Updated(doc, body) ==
    [doc EXCEPT !.name = body.name, !.relation = body.relation,
                !.phone = body.phone, !.email = body.email, !.updatedAt = now]

UpdateWriteLogsFailure(r, ok) ==
    /\ reqs[r].pc = "upd_write"
    /\ LET id == reqs[r].body.id
           body == reqs[r].body
       IN IF ~Exists(id)
             \/ ~Storable([name |-> body.name, relation |-> body.relation,
                           phone |-> body.phone, email |-> body.email])
          THEN /\ reqs' = [reqs EXCEPT ![r] = Respond(reqs[r], 500)]
               /\ UNCHANGED <<caretakers, now>>
          ELSE IF ~ok
          THEN /\ reqs' = [reqs EXCEPT ![r] =
                     IF Audits(variant) THEN [reqs[r] EXCEPT !.pc = "upd_log"]
                     ELSE Fail(reqs[r])]
               /\ UNCHANGED <<caretakers, now>>
          ELSE /\ caretakers' = [caretakers EXCEPT ![id] = Updated(caretakers[id], body)]
               /\ now' = now + 1
               /\ reqs' = [reqs EXCEPT ![r] =
                     IF Audits(variant)
                     THEN [reqs[r] EXCEPT !.pc = "upd_log", !.pre = caretakers[id]]
                     ELSE Respond(reqs[r], 200)]
    /\ UNCHANGED <<variant, nextId, logs, started>>
    /\ UNCHANGED pvars

\* The store update: it throws when the document is gone, when a value is
\* undefined, or when the store fails.
UpdateWrite(r, ok) ==
    /\ reqs[r].pc = "upd_write"
    /\ LET id == reqs[r].body.id
           body == reqs[r].body
       IN IF ~Exists(id)
             \/ ~Storable([name |-> body.name, relation |-> body.relation,
                           phone |-> body.phone, email |-> body.email])
          THEN /\ reqs' = [reqs EXCEPT ![r] = Respond(reqs[r], 500)]
               /\ UNCHANGED <<caretakers, now>>
          ELSE IF ~ok
          THEN /\ reqs' = [reqs EXCEPT ![r] = Fail(reqs[r])]
               /\ UNCHANGED <<caretakers, now>>
          ELSE /\ caretakers' = [caretakers EXCEPT ![id] = Updated(caretakers[id], body)]
               /\ now' = now + 1
               /\ reqs' = [reqs EXCEPT ![r] =
                     IF Audits(variant)
                     THEN [reqs[r] EXCEPT !.pc = "upd_log", !.pre = caretakers[id]]
                     ELSE Respond(reqs[r], 200)]
    /\ UNCHANGED <<variant, nextId, logs, started>>
    /\ UNCHANGED pvars

\* await logChange('UPDATE', patientId, 'Caretaker', id, name,
\* { oldData: caretakerData, newData: req.body }), then the response.
UpdateLog(r, outcome) ==
    /\ reqs[r].pc = "upd_log"
    /\ logs' = LogChange("UPDATE", reqs[r].body.patientId, reqs[r].body.id,
                         reqs[r].body.name,
                         [oldData |-> reqs[r].data, newData |-> reqs[r].body], outcome)
    /\ now' = IF logs' # logs THEN now + 1 ELSE now
    /\ reqs' = [reqs EXCEPT ![r] =
          Awaited(reqs[r], Respond(reqs[r], 200), reqs[r].body.patientId, outcome)]
    /\ UNCHANGED <<variant, caretakers, nextId, started>>
    /\ UNCHANGED pvars

\* --------------------------------------------- DELETE /api/caretaker/delete
DeleteRequest(r, body, ok) ==
    /\ HasDelete(variant)
    /\ Free(r)
    /\ started' = started + 1
    /\ reqs' = [reqs EXCEPT ![r] = Lookup("delete", "del_log", body, ok)]
    /\ UNCHANGED <<variant, caretakers, nextId, now, logs>>
    /\ UNCHANGED pvars

DeleteLogEager(r, outcome) ==
    /\ reqs[r].pc = "del_log"
    /\ logs' = LogChange("DELETE", reqs[r].body.patientId, reqs[r].body.id,
                         reqs[r].data.name, [data |-> reqs[r].data], outcome)
    /\ now' = IF logs' # logs THEN now + 1 ELSE now
    /\ caretakers' = [caretakers EXCEPT ![reqs[r].body.id] = NoDoc]
    /\ reqs' = [reqs EXCEPT ![r] =
          Awaited(reqs[r], [reqs[r] EXCEPT !.pc = "del_write"],
                  reqs[r].body.patientId, outcome)]
    /\ UNCHANGED <<variant, nextId, started>>
    /\ UNCHANGED pvars

\* await logChange('DELETE', patientId, 'Caretaker', id, caretakerData.name,
\* { data: caretakerData })
DeleteLog(r, outcome) ==
    /\ reqs[r].pc = "del_log"
    /\ logs' = LogChange("DELETE", reqs[r].body.patientId, reqs[r].body.id,
                         reqs[r].data.name, [data |-> reqs[r].data], outcome)
    /\ now' = IF logs' # logs THEN now + 1 ELSE now
    /\ reqs' = [reqs EXCEPT ![r] =
          Awaited(reqs[r], [reqs[r] EXCEPT !.pc = "del_write"],
                  reqs[r].body.patientId, outcome)]
    /\ UNCHANGED <<variant, caretakers, nextId, started>>
    /\ UNCHANGED pvars

\* await caretakerRef.delete(), then the response.  Deleting a document that
\* is already gone succeeds.
DeleteWrite(r, ok) ==
    /\ reqs[r].pc = "del_write"
    /\ IF ok
       THEN /\ caretakers' = [caretakers EXCEPT ![reqs[r].body.id] = NoDoc]
            /\ reqs' = [reqs EXCEPT ![r] = Respond(reqs[r], 200)]
       ELSE /\ reqs' = [reqs EXCEPT ![r] = Fail(reqs[r])]
            /\ UNCHANGED caretakers
    /\ UNCHANGED <<variant, nextId, now, logs, started>>
    /\ UNCHANGED pvars

\* ------------------------------------------------- GET /api/caretakers/all
\* Validation and the query of the users collection.
AllRequest(r, org, ok) ==
    /\ HasAll(variant)
    /\ Free(r)
    /\ started' = started + 1
    /\ reqs' = [reqs EXCEPT ![r] =
          IF Falsy(org) THEN Respond(Accept("all", [organizationId |-> org]), 400)
          ELSE IF ~ok THEN Fail(Accept("all", [organizationId |-> org]))
          ELSE [Accept("all", [organizationId |-> org]) EXCEPT
                   !.pc = "all_query", !.ids = PatientsOf(org)]]
    /\ UNCHANGED <<variant, caretakers, nextId, now, logs>>
    /\ UNCHANGED pvars

\* The query of the caretakers collection, then the response.
AllQuery(r, ok) ==
    /\ reqs[r].pc = "all_query"
    /\ reqs' = [reqs EXCEPT ![r] =
          IF ~ok THEN Fail(reqs[r])
          ELSE [Respond(reqs[r], 200) EXCEPT
                   !.outList = {WithId(i) : i \in WherePatientIn(InList(reqs[r].ids))}]]
    /\ UNCHANGED <<variant, caretakers, nextId, now, logs, started>>
    /\ UNCHANGED pvars

\* The response has been sent; the slot serves the next request.
Finish(r) ==
    /\ reqs[r].pc = "done"
    /\ reqs' = [reqs EXCEPT ![r] = IdleSlot]
    /\ UNCHANGED <<variant, caretakers, nextId, now, logs, started>>
    /\ UNCHANGED pvars

\* --------------------------------------------------------- specification
\* Records that earlier runs left in the store (the store outlives the
\* process): each is what add stores for a complete payload.
SeedPatients == <<"p1", "p2", "p1", "p2">>
SeedDoc(n) == [FullAdd(SeedPatients[((n - 1) % 4) + 1]) @@
                  [createdAt |-> 0, updatedAt |-> Undefined]
               EXCEPT !.name = "n0"]

Init ==
    /\ variant \in Variants
    /\ \E n \in {0, MaxSeed} :
          /\ caretakers = [i \in DocIds |->
                 IF \E k \in 1..n : i = IdOf(k)
                 THEN SeedDoc(CHOOSE k \in 1..n : i = IdOf(k))
                 ELSE NoDoc]
          /\ nextId = n
    /\ now = 1
    /\ logs = <<>>
    /\ reqs = [r \in Slots |-> IdleSlot]
    /\ started = 0
    /\ partnerLinks = <<>>
    /\ generated = <<>>
    /\ presp = [op |-> "none"]
    /\ handled = 0

Next ==
    \/ \E r \in Slots, body \in AddBodies, ok \in BOOLEAN : AddRequest(r, body, ok)
    \/ \E r \in Slots, outcome \in LogOutcomes : AddLog(r, outcome)
    \/ \E r \in Slots, p \in GetPatients, ok \in BOOLEAN : GetRequest(r, p, ok)
    \/ \E r \in Slots, body \in UpdateBodies, ok \in BOOLEAN : UpdateRequest(r, body, ok)
    \/ \E r \in Slots, ok \in BOOLEAN : UpdateWrite(r, ok)
    \/ \E r \in Slots, outcome \in LogOutcomes : UpdateLog(r, outcome)
    \/ \E r \in Slots, body \in DeleteBodies, ok \in BOOLEAN : DeleteRequest(r, body, ok)
    \/ \E r \in Slots, outcome \in LogOutcomes : DeleteLog(r, outcome)
    \/ \E r \in Slots, ok \in BOOLEAN : DeleteWrite(r, ok)
    \/ \E r \in Slots, org \in Organizations, ok \in BOOLEAN : AllRequest(r, org, ok)
    \/ \E r \in Slots, ok \in BOOLEAN : AllQuery(r, ok)
    \/ \E r \in Slots : Finish(r)

Spec == Init /\ [][Next]_vars

\* ------------------------------------------------- partner service (part_001)
\* Names every JavaScript object inherits from Object.prototype: a plain
\* object such as partnerLinks answers them without owning them.
PrototypeKeys == {"constructor", "toString", "__proto__"}
Inherited == "<inherited>"

\* partnerLinks[code]
PropertyOf(code) ==
    IF code \in DOMAIN partnerLinks THEN partnerLinks[code]
    ELSE IF code \in PrototypeKeys THEN Inherited
    ELSE Undefined

\* crypto.randomBytes(3).toString('hex').toUpperCase()
RandomByte == {10, 171}
LowerHexDigit(n) ==
    <<"0", "1", "2", "3", "4", "5", "6", "7", "8", "9", "a", "b", "c", "d", "e", "f">>[n + 1]
UpperCase(c) ==
    CASE c = "a" -> "A" [] c = "b" -> "B" [] c = "c" -> "C"
      [] c = "d" -> "D" [] c = "e" -> "E" [] c = "f" -> "F" [] OTHER -> c
HexByte(b) == UpperCase(LowerHexDigit(b \div 16)) \o UpperCase(LowerHexDigit(b % 16))
generatePartnerCode(b1, b2, b3) == HexByte(b1) \o HexByte(b2) \o HexByte(b3)
Codes == {generatePartnerCode(b1, b2, b3) : b1 \in RandomByte, b2 \in RandomByte, b3 \in RandomByte}

PartnerUserIds == {Undefined, "", "u1", "u2"}
\* Path parameters a client may send to GET /partner/:code.
PathCodes == Codes \cup {"constructor", "__proto__", "0aabab", "FFFFFF"}

MissingUserAbsentOnly(userId) == userId = Undefined

\* if (!userId) return res.status(400)
MissingUser(userId) == Falsy(userId)

\* POST /partner/generate
Generate(userId, b1, b2, b3) ==
    /\ handled < MaxGen
    /\ handled' = handled + 1
    /\ IF MissingUser(userId)
       THEN /\ presp' = [op |-> "generate", userId |-> userId, status |-> 400,
                         code |-> "", out |-> Undefined]
            /\ UNCHANGED <<partnerLinks, generated>>
       ELSE LET code == generatePartnerCode(b1, b2, b3)
            IN /\ partnerLinks' = (code :> userId) @@ partnerLinks
               /\ generated' = Append(generated, <<code, userId>>)
               /\ presp' = [op |-> "generate", userId |-> userId, status |-> 200,
                            code |-> code, out |-> userId]
    /\ UNCHANGED cvars

\* GET /partner/:code
Resolve(code) ==
    /\ handled < MaxGen
    /\ handled' = handled + 1
    /\ presp' = IF Falsy(PropertyOf(code))
                THEN [op |-> "resolve", userId |-> Undefined, status |-> 404,
                      code |-> code, out |-> Undefined]
                ELSE [op |-> "resolve", userId |-> Undefined, status |-> 200,
                      code |-> code, out |-> PropertyOf(code)]
    /\ UNCHANGED <<partnerLinks, generated>>
    /\ UNCHANGED cvars

\* GET /health
Health ==
    /\ handled < MaxGen
    /\ handled' = handled + 1
    /\ presp' = [op |-> "health", userId |-> Undefined, status |-> 200,
                 code |-> "", out |-> "Partner Service is running"]
    /\ UNCHANGED <<partnerLinks, generated>>
    /\ UNCHANGED cvars

PartnerInit ==
    /\ variant = "v1"
    /\ caretakers = [i \in DocIds |-> NoDoc]
    /\ nextId = 0
    /\ now = 1
    /\ logs = <<>>
    /\ reqs = [r \in Slots |-> IdleSlot]
    /\ started = 0
    /\ partnerLinks = <<>>
    /\ generated = <<>>
    /\ presp = [op |-> "none"]
    /\ handled = 0

PartnerNext ==
    \/ \E u \in PartnerUserIds, b1 \in RandomByte, b2 \in RandomByte, b3 \in RandomByte :
          Generate(u, b1, b2, b3)
    \/ \E code \in PathCodes : Resolve(code)
    \/ Health

PartnerSpec == PartnerInit /\ [][PartnerNext]_vars

\* ================================================================ claims
\* A claim about what a request answers is read for the requests whose own
\* store calls complete (fault = FALSE); where it speaks of the audit entry,
\* for the requests whose logger calls complete (log = "ok").  The failures
\* of the store are the subject of other claims.

\* Slot r takes a request of one of the kinds in this step.
Arrived(r, kinds) ==
    reqs[r].pc = "idle" /\ reqs'[r].pc # "idle" /\ reqs'[r].kind \in kinds

\* The request that arrives in slot r names a stored record of another patient.
ForeignRecord(r) ==
    /\ Arrived(r, {"update", "delete"})
    /\ ~reqs'[r].fault
    /\ reqs'[r].body.id \in DocIds
    /\ caretakers[reqs'[r].body.id] # NoDoc
    /\ caretakers[reqs'[r].body.id].patientId # reqs'[r].body.patientId

\* The request in slot r is over and has touched neither collection.
Rejected(r, s) ==
    /\ reqs'[r].pc = "done"
    /\ reqs'[r].status = s
    /\ caretakers' = caretakers
    /\ logs' = logs

\* C1 as stated: an update or delete whose id names a stored record and
\* whose patientId differs from the stored one answers 403, changes no
\* record and writes no log entry.
C1_Original ==
    [][\A r \in Slots : ForeignRecord(r) => Rejected(r, 403)]_vars

\* C1, amended: such a request with a non-empty patientId answers 403, with
\* an empty or absent patientId 400; either way it changes no record and
\* writes no log entry.
C1_ForeignRejected ==
    [][\A r \in Slots : ForeignRecord(r) =>
          Rejected(r, IF Falsy(reqs'[r].body.patientId) THEN 400 ELSE 403)]_vars

\* An update and a delete have both answered 403 and the records they named
\* are still stored.
C1_Witness ==
    \E r, q \in Slots :
        /\ reqs[r].pc = "done" /\ reqs[r].kind = "update" /\ reqs[r].status = 403
        /\ reqs[q].pc = "done" /\ reqs[q].kind = "delete" /\ reqs[q].status = 403
        /\ caretakers[reqs[r].body.id] # NoDoc
        /\ caretakers[reqs[q].body.id] # NoDoc

\* C2: an update or delete with non-empty id and patientId whose id names no
\* record when the existence check reads it answers 404, creates and changes
\* no record and writes no log entry.
C2_MissingIs404 ==
    [][\A r \in Slots :
          ( /\ Arrived(r, {"update", "delete"})
            /\ ~reqs'[r].fault
            /\ ~Falsy(reqs'[r].body.id)
            /\ ~Falsy(reqs'[r].body.patientId)
            /\ \/ reqs'[r].body.id \notin DocIds
               \/ caretakers[reqs'[r].body.id] = NoDoc )
          => Rejected(r, 404)]_vars

\* An update and a delete have both answered 404.
C2_Witness ==
    \E r, q \in Slots :
        /\ reqs[r].pc = "done" /\ reqs[r].kind = "update" /\ reqs[r].status = 404
        /\ reqs[q].pc = "done" /\ reqs[q].kind = "delete" /\ reqs[q].status = 404

\* C3 as stated: an add with one of patientId, name, relation, email, phone
\* absent or empty answers 400, writes no caretaker and no log entry.
C3_Original ==
    [][\A r \in Slots :
          (Arrived(r, {"add"}) /\ \E f \in AddFields : Falsy(reqs'[r].body[f]))
          => Rejected(r, 400)]_vars

\* The add in slot r carries all five fields.
Complete(body) == \A f \in AddFields : ~Falsy(body[f])

\* The add that arrives in slot r stores exactly one new record, which
\* echoes the payload; every other record is as before.
StoresOne(r) ==
    \E i \in DocIds :
        /\ caretakers[i] = NoDoc
        /\ caretakers'[i] # NoDoc
        /\ \A f \in AddFields : caretakers'[i][f] = reqs'[r].body[f]
        /\ \A j \in DocIds \ {i} : caretakers'[j] = caretakers[j]
        /\ reqs'[r].newId = i

\* The step of slot r appends one CREATE entry for its record with the
\* payload as details.data.
LogsCreate(r) ==
    /\ Len(logs') = Len(logs) + 1
    /\ SubSeq(logs', 1, Len(logs)) = logs
    /\ logs'[Len(logs')].action = "CREATE"
    /\ logs'[Len(logs')].entityId = reqs[r].newId
    /\ logs'[Len(logs')].details = [data |-> reqs[r].body]

\* The add in slot r, its record stored, ends in this step.
AddEnds(r) ==
    reqs[r].pc = "add_log" /\ reqs'[r].pc = "done" /\ Complete(reqs[r].body)

\* C4 as stated, for the variants that have the audit logger: a complete add
\* whose store write succeeds stores one record echoing the payload, answers
\* 200 with that record's id and writes one CREATE entry for it.
C4_Original ==
    [][\A r \in Slots :
          /\ (Arrived(r, {"add"}) /\ Audits(variant) /\ Complete(reqs'[r].body)
                /\ ~reqs'[r].fault) => StoresOne(r)
          /\ AddEnds(r) =>
                (reqs'[r].status = 200 /\ reqs'[r].outId = reqs[r].newId /\ LogsCreate(r))
      ]_vars

\* C4, amended: the record and the answer as stated; the CREATE entry is
\* written when the logger's own lookup and write succeed, and at most that
\* entry is written otherwise.
C4_AddEchoes ==
    [][\A r \in Slots :
          /\ (Arrived(r, {"add"}) /\ Audits(variant) /\ Complete(reqs'[r].body)
                /\ ~reqs'[r].fault) => StoresOne(r)
          /\ AddEnds(r) =>
                /\ reqs'[r].status = 200
                /\ reqs'[r].outId = reqs[r].newId
                /\ caretakers' = caretakers
                /\ IF reqs'[r].log = "ok" THEN LogsCreate(r)
                   ELSE logs' = logs \/ LogsCreate(r)
      ]_vars

\* A complete add has answered 200 with the id of a record that echoes its
\* payload, and the last log entry is its CREATE entry.
C4_Witness ==
    \E r \in Slots :
        /\ reqs[r].pc = "done" /\ reqs[r].kind = "add" /\ reqs[r].status = 200
        /\ reqs[r].log = "ok"
        /\ reqs[r].outId \in DocIds
        /\ caretakers[reqs[r].outId] # NoDoc
        /\ \A f \in AddFields : caretakers[reqs[r].outId][f] = reqs[r].body[f]
        /\ Len(logs) > 0
        /\ logs[Len(logs)].action = "CREATE"
        /\ logs[Len(logs)].entityId = reqs[r].outId
        /\ logs[Len(logs)].details.data = reqs[r].body

\* The DELETE entries written for record id.
DeleteEntries(log, id) ==
    {k \in 1..Len(log) : log[k].action = "DELETE" /\ log[k].entityId = id}

\* C5 as stated, read for the deletes whose logger calls complete: when a
\* delete removes a record, the log holds exactly one DELETE entry for it and
\* that entry's details.data is the record as it was just before removal.
C5_Original ==
    [][\A r \in Slots :
          ( /\ reqs[r].pc = "del_write"
            /\ reqs[r].log = "ok"
            /\ caretakers[reqs[r].body.id] # NoDoc
            /\ caretakers'[reqs[r].body.id] = NoDoc )
          => /\ Cardinality(DeleteEntries(logs', reqs[r].body.id)) = 1
             /\ \A k \in DeleteEntries(logs', reqs[r].body.id) :
                   logs'[k].details.data = caretakers[reqs[r].body.id]
      ]_vars

\* The records a get for patientId must list, each with its id.
Matching(patientId) ==
    {i \in DocIds : caretakers[i] # NoDoc /\ caretakers[i].patientId = patientId}

\* Element d of a response is stored record d.id with its fields.
Lists(d) ==
    /\ d.id \in DocIds
    /\ caretakers[d.id] # NoDoc
    /\ \A f \in DOMAIN caretakers[d.id] : d[f] = caretakers[d.id][f]

\* C6: a get with a non-empty patientId answers 200 with exactly the stored
\* records of that patient, each with its id; with none stored, 200 and [].
C6_GetExact ==
    [][\A r \in Slots :
          (Arrived(r, {"get"}) /\ ~Falsy(reqs'[r].body.patientId) /\ ~reqs'[r].fault)
          => /\ reqs'[r].pc = "done"
             /\ reqs'[r].status = 200
             /\ \A d \in reqs'[r].outList : Lists(d)
             /\ {d.id : d \in reqs'[r].outList} = Matching(reqs'[r].body.patientId)
      ]_vars

\* One get has answered 200 with a record, another 200 with the empty list
\* while records of other patients are stored.
C6_Witness ==
    \E r, q \in Slots :
        /\ reqs[r].pc = "done" /\ reqs[r].kind = "get" /\ reqs[r].status = 200
        /\ reqs[r].outList # {}
        /\ reqs[q].pc = "done" /\ reqs[q].kind = "get" /\ reqs[q].status = 200
        /\ reqs[q].outList = {}
        /\ \E i \in DocIds : caretakers[i] # NoDoc

\* The users of an organization that have the role "user".
RoleUsers(org) ==
    {u \in UserIds : Users[u].organizationId = org /\ Users[u].role = "user"}

\* The list request in slot r gets its answer in this step.
Listed(r) ==
    reqs[r].pc = "all_query" /\ reqs'[r].pc = "done" /\ ~reqs'[r].fault

\* C7 as stated: a list for an organization without any user of role "user"
\* answers the empty list, whatever is stored.
C7_Original ==
    [][\A r \in Slots :
          (Listed(r) /\ RoleUsers(reqs[r].body.organizationId) = {})
          => (reqs'[r].status = 200 /\ reqs'[r].outList = {})]_vars

\* C8 as stated: a list answers exactly the stored records whose patientId
\* is the id of a user of that organization with role "user".
C8_Original ==
    [][\A r \in Slots :
          Listed(r)
          => /\ reqs'[r].status = 200
             /\ \A d \in reqs'[r].outList : Lists(d)
             /\ {d.id : d \in reqs'[r].outList} =
                   {i \in DocIds : /\ caretakers[i] # NoDoc
                                   /\ caretakers[i].patientId
                                         \in RoleUsers(reqs[r].body.organizationId)}
      ]_vars

\* The positions of the history at which generate stored code.
Produced(code) == {k \in 1..Len(generated) : generated[k][1] = code}

\* The userId of the most recent generate that produced code.
LatestUser(code) ==
    generated[CHOOSE k \in Produced(code) : \A j \in Produced(code) : j <= k][2]

\* C9 as stated: resolving a code answers the userId of the most recent
\* generate that produced it, and 404 for a code no generate has produced.
C9_Original ==
    presp.op = "resolve" =>
        IF Produced(presp.code) # {}
        THEN presp.status = 200 /\ presp.out = LatestUser(presp.code)
        ELSE presp.status = 404

\* C10: a generate whose userId is absent or empty answers 400 and leaves the
\* code-to-user mapping as it was.
C10_NoUserNoCode ==
    [][(handled' = handled + 1 /\ presp'.op = "generate" /\ Falsy(presp'.userId))
          => (presp'.status = 400 /\ partnerLinks' = partnerLinks)]_vars

\* A generate without userId has answered 400 while a code stored earlier is
\* still mapped.
C10_Witness ==
    /\ presp.op = "generate"
    /\ Falsy(presp.userId)
    /\ presp.status = 400
    /\ DOMAIN partnerLinks # {}

\* The request in slot r awaits the audit logger, which returns in this step.
LoggerReturns(r) ==
    reqs[r].pc \in {"add_log", "upd_log", "del_log"} /\ reqs'[r] # reqs[r]

\* C11: whatever happens inside the audit logger, the request goes on as it
\* does when the logger succeeds: add and update answer 200 (add with the
\* new id), delete goes on to its store delete, whose outcome alone decides
\* the answer; the logger step changes no caretaker record.
C11_LoggerSilent ==
    [][\A r \in Slots :
          /\ LoggerReturns(r) =>
                /\ caretakers' = caretakers
                /\ ~reqs'[r].fault
                /\ reqs'[r].body = reqs[r].body
                /\ reqs[r].pc = "add_log" =>
                      /\ reqs'[r].pc = "done" /\ reqs'[r].status = 200
                      /\ reqs'[r].outId = reqs[r].newId
                /\ reqs[r].pc = "upd_log" =>
                      reqs'[r].pc = "done" /\ reqs'[r].status = 200
                /\ reqs[r].pc = "del_log" =>
                      reqs'[r].pc = "del_write" /\ reqs'[r].status = 0
          /\ (reqs[r].pc = "del_write" /\ reqs'[r].pc = "done") =>
                IF reqs'[r].fault
                THEN reqs'[r].status = 500 /\ caretakers' = caretakers
                ELSE /\ reqs'[r].status = 200
                     /\ caretakers' = [caretakers EXCEPT ![reqs[r].body.id] = NoDoc]
      ]_vars

\* An add has answered 200 with its record stored though the logger's lookup
\* failed, and a delete has answered 200 with its record gone though the
\* log write failed.
C11_Witness ==
    \E r, q \in Slots :
        /\ reqs[r].pc = "done" /\ reqs[r].kind = "add" /\ reqs[r].status = 200
        /\ reqs[r].log = "lookup_failed"
        /\ caretakers[reqs[r].outId] # NoDoc
        /\ reqs[q].pc = "done" /\ reqs[q].kind = "delete" /\ reqs[q].status = 200
        /\ reqs[q].log = "write_failed"
        /\ caretakers[reqs[q].body.id] = NoDoc

\* The acting-user id the logger is called with by the request in slot r.
ActingUser(r) == reqs[r].body.patientId

\* C12 (as stated): when the logger is called with a falsy acting-user id,
\* or its lookup of the acting user's name fails, and the log write itself
\* does not fail, one entry is appended whose userName is "Unknown" and
\* whose userId is "unknown" if the id was falsy.
C12_Original ==
    [][\A r \in Slots :
          ( /\ LoggerReturns(r)
            /\ reqs'[r].log \in {"ok", "lookup_failed"}
            /\ Falsy(ActingUser(r)) \/ reqs'[r].log = "lookup_failed" ) =>
                /\ Len(logs') = Len(logs) + 1
                /\ logs'[Len(logs')].userName = "Unknown"
                /\ Falsy(ActingUser(r)) => logs'[Len(logs')].userId = "unknown"
      ]_vars

\* C13: in a delete that passed the existence and ownership checks the
\* logger is awaited before the store delete is issued: the logger step
\* removes nothing, a record is only ever removed by a delete whose logger
\* call has returned, and a delete that ends with its record still stored
\* answers 500.
C13_LogBeforeDelete ==
    [][/\ \A r \in Slots :
             /\ (reqs[r].pc = "del_log" /\ reqs'[r] # reqs[r]) =>
                   /\ caretakers' = caretakers
                   /\ reqs'[r].pc = "del_write"
                   /\ reqs'[r].log = "ok" =>
                         /\ Len(logs') = Len(logs) + 1
                         /\ logs'[Len(logs')].action = "DELETE"
                         /\ logs'[Len(logs')].entityId = reqs[r].body.id
             /\ (reqs[r].pc = "del_write" /\ reqs'[r].pc = "done"
                   /\ caretakers'[reqs[r].body.id] # NoDoc) =>
                   reqs'[r].status = 500
       /\ \A i \in DocIds :
             (caretakers[i] # NoDoc /\ caretakers'[i] = NoDoc) =>
                \E r \in Slots : /\ reqs[r].pc = "del_write"
                                 /\ reqs[r].body.id = i
                                 /\ reqs[r].log # "none"
                                 /\ reqs'[r].pc = "done"
      ]_vars

\* A delete has written its DELETE entry, its store delete has failed, and
\* it has answered 500: the entry exists for a record that is still stored.
C13_Witness ==
    \E r \in Slots :
        /\ reqs[r].pc = "done" /\ reqs[r].kind = "delete"
        /\ reqs[r].status = 500 /\ reqs[r].log = "ok"
        /\ caretakers[reqs[r].body.id] # NoDoc
        /\ DeleteEntries(logs, reqs[r].body.id) # {}

\* C14 (as stated): every UPDATE entry carries as details.oldData the record
\* as it was immediately before that update's store write (kept in the
\* slot's history field pre), and as details.newData the submitted payload,
\* also when two updates of one record interleave.
C14_Original ==
    [][\A r \in Slots :
          ( /\ reqs[r].pc = "upd_log" /\ LoggerReturns(r)
            /\ Len(logs') = Len(logs) + 1 ) =>
              /\ logs'[Len(logs')].action = "UPDATE"
              /\ logs'[Len(logs')].details.newData = reqs[r].body
              /\ logs'[Len(logs')].details.oldData = reqs[r].pre
      ]_vars

\* C15: a stored record keeps its patientId and its createdAt through every
\* step, and it keeps its id: a document appears only under the next fresh
\* id, which is never handed out again.
C15_PatientIdFrozen ==
    [][/\ nextId' >= nextId
       /\ \A i \in DocIds :
             /\ (caretakers[i] # NoDoc /\ caretakers'[i] # NoDoc) =>
                   /\ caretakers'[i].patientId = caretakers[i].patientId
                   /\ caretakers'[i].createdAt = caretakers[i].createdAt
             /\ (caretakers[i] = NoDoc /\ caretakers'[i] # NoDoc) =>
                   i = IdOf(nextId + 1) /\ nextId' = nextId + 1
      ]_vars

\* An update has been applied and answered 200: the record carries the new
\* name, and the patientId and createdAt the update read before writing.
C15_Witness ==
    \E r \in Slots :
        /\ reqs[r].pc = "done" /\ reqs[r].kind = "update" /\ reqs[r].status = 200
        /\ caretakers[reqs[r].body.id] # NoDoc
        /\ reqs[r].data.name # reqs[r].body.name
        /\ caretakers[reqs[r].body.id].name = reqs[r].body.name
        /\ caretakers[reqs[r].body.id].patientId = reqs[r].data.patientId
        /\ caretakers[reqs[r].body.id].createdAt = reqs[r].data.createdAt

\* The entries of the given action in the log.
EntriesOf(log, action) == {k \in 1..Len(log) : log[k].action = action}

\* C16: the logger is called for an add or an update only in the step after
\* the store mutation was applied (the slot enters add_log with its record
\* just created, upd_log with its record just overwritten); a CREATE or
\* UPDATE entry is appended only by such a call and names that record; a
\* step that answers 500 appends nothing; and in every state each CREATE
\* entry names an id that was handed out.
C16_LoggedAfterApplied ==
    /\ [](\A k \in EntriesOf(logs, "CREATE") :
               \E n \in 1..nextId : logs[k].entityId = IdOf(n))
    /\ [][/\ \A r \in Slots :
                /\ (reqs[r].pc # "add_log" /\ reqs'[r].pc = "add_log") =>
                      /\ caretakers[reqs'[r].newId] = NoDoc
                      /\ caretakers'[reqs'[r].newId] # NoDoc
                      /\ caretakers'[reqs'[r].newId].name = reqs'[r].body.name
                /\ (reqs[r].pc # "upd_log" /\ reqs'[r].pc = "upd_log") =>
                      /\ reqs[r].pc = "upd_write"
                      /\ caretakers'[reqs[r].body.id].name = reqs[r].body.name
                      /\ caretakers'[reqs[r].body.id].phone = reqs[r].body.phone
                      /\ caretakers'[reqs[r].body.id].updatedAt = now
                /\ (reqs[r].pc # "done" /\ reqs'[r].pc = "done"
                      /\ reqs'[r].status = 500) => logs' = logs
          /\ logs' # logs =>
                /\ Len(logs') = Len(logs) + 1
                /\ \A k \in 1..Len(logs) : logs'[k] = logs[k]
                /\ logs'[Len(logs')].action = "CREATE" =>
                      \E r \in Slots : /\ reqs[r].pc = "add_log" /\ LoggerReturns(r)
                                       /\ logs'[Len(logs')].entityId = reqs[r].newId
                /\ logs'[Len(logs')].action = "UPDATE" =>
                      \E r \in Slots : /\ reqs[r].pc = "upd_log" /\ LoggerReturns(r)
                                       /\ logs'[Len(logs')].entityId = reqs[r].body.id
         ]_vars

\* The log holds a CREATE entry and an UPDATE entry.
C16_Witness ==
    /\ EntriesOf(logs, "CREATE") # {}
    /\ EntriesOf(logs, "UPDATE") # {}
====
